---- MODULE Spec2Model ----
(***************************************************************************)
(* telegram-nats-bridge: the batched rule router (Router.Route) and the    *)
(* publish worker pool (Publisher) as state machines.                      *)
(*                                                                         *)
(* Indices are 1-based here (route[0] of the source is routes[1]).         *)
(***************************************************************************)
EXTENDS Integers, Sequences, FiniteSets, TLC

\* ------------------------------------------------------------------ bounds
MaxRoutes == 3
MaxRouteWorkers == 2
MaxProcs == 2
MaxPublishWorkers == 2
MaxTimeoutSec == 1
MaxTasks == 3
NumSubmitters == 2
MaxUpdates == 2
MaxBridgeRoutes == 2
MaxConfigRoutes == 1
MaxPollId == 2
MaxPollLen == 2
MaxPollLog == 3

Min(a, b) == IF a < b THEN a ELSE b

\* =====================================================================
\*  Expression evaluation (expr.Run + runExpr[T])
\* =====================================================================

\* The kinds of update the rules are run against.
Updates == {"message", "callback"}

\* Compiled programs, named after the expression they were compiled from.
Programs ==
    {"hasMessage", "hasCallback", "fromSubject", "chatPositive",
     "fromUsername"}

BoolVal(b) == [kind |-> "bool", b |-> b, s |-> ""]
StrVal(s) == [kind |-> "string", b |-> FALSE, s |-> s]
RunFail == [kind |-> "fail", b |-> FALSE, s |-> ""]

\* expr.Run(program, {"update": update}): the program's output on the
\* update, or a runtime failure.
\*   hasMessage    update.message != nil
\*   hasCallback   update.callback_query != nil
\*   fromSubject   sprintf("tg.%d", update.message.from.id)
\*   chatPositive  update.message.chat.id > 0   (fails without a message)
\*   fromUsername  update.message.from.username ?? ""
\* (a "message" is a message of a user who has no username).
ExprRun(program, u) ==
    CASE program = "hasMessage" -> BoolVal(u = "message")
      [] program = "hasCallback" -> BoolVal(u = "callback")
      [] program = "fromSubject" ->
            IF u = "message" THEN StrVal("tg.from") ELSE RunFail
      [] program = "chatPositive" ->
            IF u = "message" THEN BoolVal(TRUE) ELSE RunFail
      [] program = "fromUsername" ->
            IF u = "message" THEN StrVal("") ELSE RunFail

\* The nil error.
Nil == <<>>

\* runExpr[T]: the value and the error it returns. The error of a failed run
\* is the evaluator's own error (it carries the program, not the caller); a
\* value of the wrong type gives "expected T, got ...".
runExpr(T, program, u) ==
    LET output == ExprRun(program, u) IN
    IF output.kind = "fail"
    THEN [val |-> IF T = "bool" THEN BoolVal(FALSE) ELSE StrVal(""),
          err |-> <<"run", program>>]
    ELSE IF output.kind # T
    THEN [val |-> IF T = "bool" THEN BoolVal(FALSE) ELSE StrVal(""),
          err |-> <<"expected", T, output.kind>>]
    ELSE [val |-> output, err |-> Nil]

\* =====================================================================
\*  Router
\* =====================================================================

SubjectTypeString == "string"
SubjectTypeExpr == "expr"

StaticRoute(c, s) ==
    [condition |-> c, subjectType |-> SubjectTypeString,
     subjectStatic |-> s, subjectExpr |-> "none"]
ExprRoute(c, p) ==
    [condition |-> c, subjectType |-> SubjectTypeExpr,
     subjectStatic |-> "", subjectExpr |-> p]

\* The compiled routes a rule list can hold.
CompiledRoutes ==
    { StaticRoute("hasMessage", "tg.msg"),
      StaticRoute("hasCallback", "tg.cb"),
      StaticRoute("chatPositive", "tg.msg"),
      ExprRoute("hasMessage", "fromSubject"),
      ExprRoute("hasCallback", "chatPositive") }

SeqsUpTo(S, n) == UNION { [1..k -> S] : k \in 0..n }

Modes == {"first", "all"}

\* routingResult and its zero value.
ZeroResult == [idx |-> 0, cond |-> FALSE, subj |-> "", err |-> Nil]

VARIABLES
    routes,        \* Router.routes
    mode,          \* Router.mode
    routeWorkers,  \* Router.routeWorkers
    update,        \* the argument of the Route call in progress
    rpc,           \* position of the Route call
    bi,            \* i, the first index of the current batch
    bj,            \* j, the number of goroutines started for the batch
    gpc,           \* per route index: state of its evaluation goroutine
    resCh,         \* the buffered result channel
    results,       \* results, indexed by route
    got,           \* results collected from the current batch
    match,         \* match
    rr,            \* rr, the last result received
    ret            \* what Route returned

rvars == <<routes, mode, routeWorkers, update, rpc, bi, bj, gpc, resCh,
           results, got, match, rr, ret>>

\* The state of the publish worker pool (Publisher).
VARIABLES
    workers,      \* Publisher.workers
    timeoutSec,   \* Publisher.timeoutSec
    started,      \* Start has run
    pctx,         \* Publisher.ctx: "active" or "cancelled"
    tasks,        \* Publisher.tasks: the tasks buffered in the channel
    closed,       \* Publisher.tasks has been closed
    sendq,        \* callers parked on the send to Publisher.tasks, in order
    wpc,          \* per worker: "select", "publishing" or "exited"
    wtask,        \* per worker: the task it is publishing (0: none)
    wctx,         \* per worker: the context publishTask hands to the transport
    spc,          \* per caller of Publish: "idle", "blocked", "woken", "panicked"
    stask,        \* per caller: the task of its call in progress (0: none)
    nextTask,     \* the next task to be submitted (tasks are numbered)
    calls,        \* per task: number of transport Publish calls made with it
    failed,       \* a transport Publish has returned an error (it is logged)
    sent,         \* the tasks NATSClient.Publish has handed to conn.Publish
    cpc,          \* position of the Close call
    closeResult,  \* what Close logged: "none", "closed" or "timeout"
    clock,        \* seconds elapsed since Close armed time.After
    done          \* the done channel of Close has been closed

pcfg == <<workers, timeoutSec, started>>
pchan == <<tasks, closed, sendq>>
pwork == <<wpc, wtask, wctx>>
psub == <<spc, stask, nextTask>>
plog == <<calls, failed, sent>>
pclose == <<cpc, closeResult, clock, done>>
pvars == <<pcfg, pctx, pchan, pwork, psub, plog, pclose>>

\* The state of a NewRouter call (the parallel rule compiler).
VARIABLES
    cfgRoutes,       \* the argument routes []Route
    npc,             \* position of the NewRouter call
    ni,              \* i of the spawning loop: the next rule to start
    numWorkers,      \* numWorkers, the limit of the errgroup
    cgo,             \* per rule index: state of its compile goroutine
    compiledRoutes,  \* the slice compiledRoutes
    writers,         \* per slot: the goroutines that have written it
    egErr,           \* the error the errgroup holds (the first recorded)
    nret             \* what NewRouter returned

nvars == <<cfgRoutes, npc, ni, numWorkers, cgo, compiledRoutes, writers,
           egErr, nret>>

\* The state of the ingestion loop (runBridge) and of the update feed.
VARIABLES
    feed,        \* the updates the feed holds; update k has update_id k
    bctx,        \* ctx of runBridge: "active" or "cancelled"
    bpc,         \* position of the loop
    offset,      \* offset
    updates,     \* updates, the result of the last poll
    nextOffset,  \* nextOffset, the result of the last poll
    bk,          \* position of the range over updates
    subjects,    \* the subjects of the current update still to be ranged
    routeLog,    \* update_id and outcome of every Route call, in order
    pubLog       \* update_id, subject, outcome of every Publish call

bvars == <<feed, bctx, bpc, offset, updates, nextOffset, bk, subjects,
           routeLog, pubLog>>

\* A configuration and the outcome of Config.Validate on it.
VARIABLES
    cfg,   \* the Config
    verr   \* what Validate returned (<<"none">> before the call)

cvars == <<cfg, verr>>

vars == <<rvars, pvars, nvars, bvars, cvars>>

NumRoutes == Len(routes)
batchSizeAll == NumRoutes - bi + 1

batchSize == Min(routeWorkers, NumRoutes - bi + 1)

NoReturn == [subjects |-> <<>>, err |-> Nil]

RouterInit ==
    /\ routes \in SeqsUpTo(CompiledRoutes, MaxRoutes)
    /\ mode \in Modes
    /\ routeWorkers \in 1..MaxRouteWorkers
    /\ update = "message"
    /\ rpc = "idle"
    /\ bi = 1
    /\ bj = 0
    /\ gpc = [k \in 1..Len(routes) |-> "none"]
    /\ resCh = <<>>
    /\ results = [k \in 1..Len(routes) |-> ZeroResult]
    /\ got = 0
    /\ match = FALSE
    /\ rr = ZeroResult
    /\ ret = NoReturn

\* Route is entered: results and resCh are made, i starts at the first route.
RouteCall(u) ==
    /\ rpc \in {"idle", "done"}
    /\ update' = u
    /\ rpc' = "loop"
    /\ bi' = 1
    /\ bj' = 0
    /\ gpc' = [k \in 1..NumRoutes |-> "none"]
    /\ resCh' = <<>>
    /\ results' = [k \in 1..NumRoutes |-> ZeroResult]
    /\ got' = 0
    /\ match' = FALSE
    /\ rr' = ZeroResult
    /\ ret' = NoReturn
    /\ UNCHANGED <<routes, mode, routeWorkers>>
    /\ UNCHANGED <<pvars, nvars, bvars, cvars>>

\* The body of one evaluation goroutine: the result it sends.
EvalRoute(idx, route, u) ==
    LET c == runExpr("bool", route.condition, u) IN
    IF c.err # Nil
    THEN [idx |-> idx, cond |-> FALSE, subj |-> "", err |-> c.err]
    ELSE IF ~c.val.b
    THEN [idx |-> idx, cond |-> FALSE, subj |-> "", err |-> Nil]
    ELSE IF route.subjectType = SubjectTypeString
    THEN [idx |-> idx, cond |-> TRUE, subj |-> route.subjectStatic, err |-> Nil]
    ELSE LET s == runExpr("string", route.subjectExpr, u) IN
         IF s.err # Nil
         THEN [idx |-> idx, cond |-> FALSE, subj |-> "", err |-> s.err]
         ELSE [idx |-> idx, cond |-> TRUE, subj |-> s.val.s, err |-> Nil]

\* The scan of results in mode "first": the subject of the first result
\* whose cond is set.
FirstMatchLast(res) ==
    LET k == CHOOSE m \in DOMAIN res :
                 res[m].cond /\ \A n \in DOMAIN res : res[n].cond => n <= m
    IN <<res[k].subj>>

FirstMatchReceived(res) ==
    IF rr.cond THEN <<rr.subj>>
    ELSE LET k == CHOOSE m \in DOMAIN res :
                      res[m].cond /\ \A n \in DOMAIN res : res[n].cond => m <= n
         IN <<res[k].subj>>

FirstMatch(res) ==
    LET k == CHOOSE m \in DOMAIN res :
                 res[m].cond /\ \A n \in DOMAIN res : res[n].cond => m <= n
    IN <<res[k].subj>>

\* The final loop: subjects of the results whose cond is set, each once, in
\* index order.
RECURSIVE DedupFrom(_, _, _)
DedupFrom(res, k, final) ==
    IF k > Len(res) THEN final
    ELSE IF res[k].cond /\ ~(\E p \in DOMAIN final : final[p] = res[k].subj)
    THEN DedupFrom(res, k + 1, Append(final, res[k].subj))
    ELSE DedupFrom(res, k + 1, final)

RECURSIVE CollectAllFrom(_, _, _)
CollectAllFrom(res, k, final) ==
    IF k > Len(res) THEN final
    ELSE IF res[k].cond
    THEN CollectAllFrom(res, k + 1, Append(final, res[k].subj))
    ELSE CollectAllFrom(res, k + 1, final)

FinalNoSeen(res) == CollectAllFrom(res, 1, <<>>)

FinalNoCond(res) == [k \in DOMAIN res |-> res[k].subj]

Final(res) == DedupFrom(res, 1, <<>>)

\* The head of the batch loop: leave it for the final loop when i is past
\* the last route, else start spawning the batch.
LoopHead ==
    /\ rpc = "loop"
    /\ IF bi > NumRoutes
       THEN /\ ret' = [subjects |-> Final(results), err |-> Nil]
            /\ rpc' = "done"
            /\ UNCHANGED bj
       ELSE /\ rpc' = "spawn"
            /\ bj' = 0
            /\ UNCHANGED ret
    /\ UNCHANGED <<routes, mode, routeWorkers, update, bi, gpc, resCh,
                   results, got, match, rr>>
    /\ UNCHANGED <<pvars, nvars, bvars, cvars>>

\* wg.Go for route i+j.
Spawn ==
    /\ rpc = "spawn"
    /\ IF bj < batchSize
       THEN /\ gpc' = [gpc EXCEPT ![bi + bj] = "ready"]
            /\ bj' = bj + 1
            /\ UNCHANGED rpc
       ELSE /\ rpc' = "wait"
            /\ UNCHANGED <<gpc, bj>>
    /\ UNCHANGED <<routes, mode, routeWorkers, update, bi, resCh, results,
                   got, match, rr, ret>>
    /\ UNCHANGED <<pvars, nvars, bvars, cvars>>

GoEvalMutating(idx) ==
    /\ gpc[idx] = "ready"
    /\ Len(resCh) < routeWorkers
    /\ resCh' = Append(resCh, EvalRoute(idx, routes[idx], update))
    /\ gpc' = [gpc EXCEPT ![idx] = "ended"]
    /\ update' = "callback"
    /\ UNCHANGED <<routes, mode, routeWorkers, rpc, bi, bj, results,
                   got, match, rr, ret>>
    /\ UNCHANGED <<pvars, nvars, bvars, cvars>>

GoEvalSilentOnNoMatch(idx) ==
    /\ gpc[idx] = "ready"
    /\ Len(resCh) < routeWorkers
    /\ LET r == EvalRoute(idx, routes[idx], update) IN
       resCh' = IF r.err = Nil /\ ~r.cond THEN resCh ELSE Append(resCh, r)
    /\ gpc' = [gpc EXCEPT ![idx] = "ended"]
    /\ UNCHANGED <<routes, mode, routeWorkers, update, rpc, bi, bj, results,
                   got, match, rr, ret>>
    /\ UNCHANGED <<pvars, nvars, bvars, cvars>>

\* An evaluation goroutine runs: it evaluates its route and sends the result
\* on resCh (the send needs room in the buffer), then ends.
GoEval(idx) ==
    /\ gpc[idx] = "ready"
    /\ Len(resCh) < routeWorkers
    /\ resCh' = Append(resCh, EvalRoute(idx, routes[idx], update))
    /\ gpc' = [gpc EXCEPT ![idx] = "ended"]
    /\ UNCHANGED <<routes, mode, routeWorkers, update, rpc, bi, bj, results,
                   got, match, rr, ret>>
    /\ UNCHANGED <<pvars, nvars, bvars, cvars>>

\* wg.Wait returns once every goroutine started so far has ended.
Wait ==
    /\ rpc = "wait"
    /\ \A k \in DOMAIN gpc : gpc[k] # "ready"
    /\ rpc' = "collect"
    /\ got' = 0
    /\ match' = FALSE
    /\ UNCHANGED <<routes, mode, routeWorkers, update, bi, bj, gpc, resCh,
                   results, rr, ret>>
    /\ UNCHANGED <<pvars, nvars, bvars, cvars>>

\* One iteration of the collecting loop: receive a result; an error returns.
CollectSkipErr ==
    /\ rpc = "collect"
    /\ got < batchSize
    /\ resCh # <<>>
    /\ rr' = Head(resCh)
    /\ resCh' = Tail(resCh)
    /\ IF Head(resCh).err # Nil
       THEN UNCHANGED <<results, match>>
       ELSE /\ results' = [results EXCEPT ![Head(resCh).idx] = Head(resCh)]
            /\ match' = (match \/ Head(resCh).cond)
    /\ got' = got + 1
    /\ UNCHANGED <<routes, mode, routeWorkers, update, rpc, bi, bj, gpc, ret>>
    /\ UNCHANGED <<pvars, nvars, bvars, cvars>>

Collect ==
    /\ rpc = "collect"
    /\ got < batchSize
    /\ resCh # <<>>
    /\ rr' = Head(resCh)
    /\ resCh' = Tail(resCh)
    /\ IF Head(resCh).err # Nil
       THEN /\ ret' = [subjects |-> <<>>, err |-> Head(resCh).err]
            /\ rpc' = "done"
            /\ UNCHANGED <<results, match, got>>
       ELSE /\ results' = [results EXCEPT ![Head(resCh).idx] = Head(resCh)]
            /\ match' = (match \/ Head(resCh).cond)
            /\ got' = got + 1
            /\ UNCHANGED <<ret, rpc>>
    /\ UNCHANGED <<routes, mode, routeWorkers, update, bi, bj, gpc>>
    /\ UNCHANGED <<pvars, nvars, bvars, cvars>>

BatchEndNoEarlyReturn ==
    /\ rpc = "collect"
    /\ got = batchSize
    /\ bi' = bi + routeWorkers
    /\ rpc' = "loop"
    /\ UNCHANGED <<routes, mode, routeWorkers, update, bj, gpc, resCh,
                   results, got, match, rr, ret>>
    /\ UNCHANGED <<pvars, nvars, bvars, cvars>>

BatchEndEarly ==
    /\ rpc = "collect"
    /\ got >= 1
    /\ IF mode = "first" /\ match
       THEN /\ ret' = [subjects |-> FirstMatch(results), err |-> Nil]
            /\ rpc' = "done"
            /\ UNCHANGED bi
       ELSE /\ bi' = bi + routeWorkers
            /\ rpc' = "loop"
            /\ UNCHANGED ret
    /\ UNCHANGED <<routes, mode, routeWorkers, update, bj, gpc, resCh,
                   results, got, match, rr>>
    /\ UNCHANGED <<pvars, nvars, bvars, cvars>>

\* After the batch is collected: mode "first" returns the first match, else
\* the loop goes on with the next batch.
BatchEnd ==
    /\ rpc = "collect"
    /\ got = batchSize
    /\ IF mode = "first" /\ match
       THEN /\ ret' = [subjects |-> FirstMatch(results), err |-> Nil]
            /\ rpc' = "done"
            /\ UNCHANGED bi
       ELSE /\ bi' = bi + routeWorkers
            /\ rpc' = "loop"
            /\ UNCHANGED ret
    /\ UNCHANGED <<routes, mode, routeWorkers, update, bj, gpc, resCh,
                   results, got, match, rr>>
    /\ UNCHANGED <<pvars, nvars, bvars, cvars>>

RouterNext ==
    \/ \E u \in Updates : RouteCall(u)
    \/ LoopHead
    \/ Spawn
    \/ \E idx \in DOMAIN gpc : GoEval(idx)
    \/ Wait
    \/ Collect
    \/ BatchEnd

\* ---------------------------------------------------------------------
\*  What the rules say about the update of the call, rule by rule
\* ---------------------------------------------------------------------
CondFails(k) == runExpr("bool", routes[k].condition, update).err # Nil

Matches(k) ==
    /\ ~CondFails(k)
    /\ runExpr("bool", routes[k].condition, update).val.b

SubjFails(k) ==
    /\ Matches(k)
    /\ routes[k].subjectType = SubjectTypeExpr
    /\ runExpr("string", routes[k].subjectExpr, update).err # Nil

SubjectOf(k) ==
    IF routes[k].subjectType = SubjectTypeString
    THEN routes[k].subjectStatic
    ELSE runExpr("string", routes[k].subjectExpr, update).val.s

\* The routes of the batches started so far.
Evaluated == 1..Min(bi + routeWorkers - 1, NumRoutes)

Returned == rpc = "done"

\* C1: in mode "first", a Route call that returns without error while some
\* rule matches returns exactly the subject of the lowest-index matching
\* rule.
FirstReturnsLowestMatch ==
    (Returned /\ mode = "first" /\ ret.err = Nil
       /\ \E k \in 1..NumRoutes : Matches(k))
    => \E k \in 1..NumRoutes :
          /\ Matches(k)
          /\ \A n \in 1..(k - 1) : ~Matches(n)
          /\ ret.subjects = <<SubjectOf(k)>>

\* Two rules of one batch match with different subjects and the result of
\* the higher one was received first.
FirstLowestMatchWitness ==
    /\ Returned /\ mode = "first" /\ ret.err = Nil
    /\ \E k \in 1..(NumRoutes - 1) :
          /\ Matches(k) /\ Matches(k + 1)
          /\ SubjectOf(k) # SubjectOf(k + 1)
          /\ rr.idx = k
          /\ k >= bi /\ k + 1 < bi + routeWorkers
          /\ ret.subjects = <<SubjectOf(k)>>

\* C2: in mode "all", a Route call that returns without error returns the
\* subjects of the matching rules, each exactly once, ordered by the index
\* of the first rule producing it.
FirstProducer(s) ==
    CHOOSE k \in 1..NumRoutes :
        /\ Matches(k) /\ SubjectOf(k) = s
        /\ \A n \in 1..(k - 1) : ~(Matches(n) /\ SubjectOf(n) = s)

AllReturnsDistinctInOrder ==
    (Returned /\ mode = "all" /\ ret.err = Nil)
    => /\ { ret.subjects[p] : p \in DOMAIN ret.subjects }
            = { SubjectOf(k) : k \in { n \in 1..NumRoutes : Matches(n) } }
       /\ \A p, q \in DOMAIN ret.subjects :
            p < q => /\ ret.subjects[p] # ret.subjects[q]
                     /\ FirstProducer(ret.subjects[p])
                          < FirstProducer(ret.subjects[q])

\* Three matching rules, two of them with the same subject, two subjects
\* returned.
AllDistinctWitness ==
    /\ Returned /\ mode = "all" /\ ret.err = Nil
    /\ Len(ret.subjects) = 2
    /\ Cardinality({ k \in 1..NumRoutes : Matches(k) }) = 3

\* C7: when the evaluation of a rule of a started batch fails, Route returns
\* an error, and an error is never returned together with subjects.
ErrorMeansNoSubjects ==
    Returned =>
      /\ (\E k \in Evaluated : CondFails(k) \/ SubjFails(k)) => ret.err # Nil
      /\ ret.err # Nil => ret.subjects = <<>>

\* A rule fails while a lower rule of the same batch matches.
ErrorNoSubjectsWitness ==
    /\ Returned /\ ret.err # Nil /\ ret.subjects = <<>>
    /\ \E k \in Evaluated :
          /\ k >= bi /\ k + 1 \in Evaluated
          /\ Matches(k) /\ ~SubjFails(k)
          /\ CondFails(k + 1) \/ SubjFails(k + 1)

\* C8: the error Route returns tells which stage failed: no error value is
\* returned that a failing condition and a failing subject expression can
\* both produce.
ConditionErrors ==
    { runExpr("bool", r.condition, u).err :
        r \in CompiledRoutes, u \in Updates } \ {Nil}

SubjectErrors ==
    { runExpr("string", r.subjectExpr, u).err :
        r \in { c \in CompiledRoutes : c.subjectType = SubjectTypeExpr },
        u \in Updates } \ {Nil}

ErrorIdentifiesStage ==
    (Returned /\ ret.err # Nil)
    => ~(ret.err \in ConditionErrors /\ ret.err \in SubjectErrors)

\* C11: a Route call on an update that no rule matches and on which no
\* evaluation fails returns the empty result and no error, whatever the
\* rule list, the mode and the batch size.
NoMatchReturnsEmpty ==
    (Returned /\ \A k \in 1..NumRoutes : ~CondFails(k) /\ ~Matches(k))
    => ret = [subjects |-> <<>>, err |-> Nil]

\* Several batches of rules, one of them with a subject expression, none
\* matching and none failing.
NoMatchWitness ==
    /\ Returned /\ ret = [subjects |-> <<>>, err |-> Nil]
    /\ NumRoutes > routeWorkers
    /\ \E k \in 1..NumRoutes : routes[k].subjectType = SubjectTypeExpr
    /\ \A k \in 1..NumRoutes : ~CondFails(k) /\ ~Matches(k)

\* C19: the outcome of a Route call (the subjects in their order, or that
\* it is an error) is fixed by the rule list, the mode, the batch size and
\* the update: it is the same under every interleaving of the evaluations,
\* so for every two routers with the same compiled rules.
RECURSIVE SubjectsUpTo(_, _, _)
SubjectsUpTo(rs, u, k) ==
    IF k = 0 THEN <<>>
    ELSE LET prev == SubjectsUpTo(rs, u, k - 1)
             r == EvalRoute(k, rs[k], u)
         IN IF r.cond /\ ~(\E p \in DOMAIN prev : prev[p] = r.subj)
            THEN Append(prev, r.subj)
            ELSE prev

RECURSIVE OutcomeFrom(_, _, _, _, _)
OutcomeFrom(rs, m, w, u, i) ==
    IF i > Len(rs)
    THEN [error |-> FALSE, subjects |-> SubjectsUpTo(rs, u, Len(rs))]
    ELSE
      LET last == Min(i + w - 1, Len(rs)) IN
      IF \E k \in i..last : EvalRoute(k, rs[k], u).err # Nil
      THEN [error |-> TRUE, subjects |-> <<>>]
      ELSE IF m = "first" /\ \E k \in i..last : EvalRoute(k, rs[k], u).cond
      THEN LET lo == CHOOSE k \in i..last :
                        /\ EvalRoute(k, rs[k], u).cond
                        /\ \A n \in i..(k - 1) : ~EvalRoute(n, rs[n], u).cond
           IN [error |-> FALSE,
               subjects |-> <<EvalRoute(lo, rs[lo], u).subj>>]
      ELSE OutcomeFrom(rs, m, w, u, i + w)

RouteIsDeterministic ==
    Returned =>
      [error |-> ret.err # Nil, subjects |-> ret.subjects]
         = OutcomeFrom(routes, mode, routeWorkers, update, 1)

\* Mode "all": two rules of the last batch match with different subjects
\* and the result of the lower one was received last.
DeterministicWitness ==
    /\ Returned /\ mode = "all" /\ ret.err = Nil
    /\ \E k \in 1..(NumRoutes - 1) :
          /\ Matches(k) /\ Matches(k + 1)
          /\ SubjectOf(k) # SubjectOf(k + 1)
          /\ rr.idx = k
          /\ Len(ret.subjects) >= 2

\* The first rule of the batch that rule n belongs to.
BatchStart(n) == ((n - 1) \div routeWorkers) * routeWorkers + 1

\* The evaluation of rule n has been started in the call in progress.
EvalStarted(n) == gpc[n] # "none"

\* C23: in mode "first" no evaluation of a rule is started when a rule of
\* an earlier batch matches; and when the first batch with a matching rule
\* is reached without any failure up to its end, Route returns no error,
\* whatever a rule of a later batch would raise.
FirstStopsAtMatchingBatch ==
    mode = "first" =>
      /\ \A n \in 1..NumRoutes :
            EvalStarted(n) => \A k \in 1..(BatchStart(n) - 1) : ~Matches(k)
      /\ (Returned
            /\ \E k \in 1..NumRoutes :
                 /\ Matches(k)
                 /\ \A n \in 1..Min(BatchStart(k) + routeWorkers - 1,
                                      NumRoutes) :
                       ~CondFails(n) /\ ~SubjFails(n))
         => ret.err = Nil

\* Mode "first": Route has returned a subject and a rule of a later batch,
\* whose evaluation would fail, was never started.
FirstStopsWitness ==
    /\ Returned /\ mode = "first" /\ ret.err = Nil
    /\ Len(ret.subjects) = 1
    /\ \E n \in 1..NumRoutes : ~EvalStarted(n) /\ CondFails(n)

\* C24: when the evaluation of a rule has been started, every rule of every
\* earlier batch has been evaluated and its result collected, and the
\* channel holds no result of an earlier batch.
BatchesInOrder ==
    \A n \in 1..NumRoutes :
       EvalStarted(n) =>
          /\ \A k \in 1..(BatchStart(n) - 1) :
                gpc[k] = "ended" /\ results[k].idx = k
          /\ \A p \in DOMAIN resCh : resCh[p].idx >= BatchStart(n)

\* A rule of the second batch is being evaluated, the results of the first
\* batch were received out of index order.
BatchesInOrderWitness ==
    /\ routeWorkers >= 2 /\ NumRoutes > routeWorkers
    /\ gpc[routeWorkers + 1] = "ready"
    /\ rr.idx = 1
    /\ \A k \in 1..routeWorkers : results[k].idx = k

\* C25: at most W evaluations are in progress at any time and the result
\* channel never holds more than W results, W being the batch size.
InProgress == { k \in DOMAIN gpc : gpc[k] = "ready" }

AtMostWInProgress ==
    /\ Cardinality(InProgress) <= routeWorkers
    /\ Len(resCh) <= routeWorkers

\* W evaluations of a longer rule list are in progress, W > 1.
AtMostWWitness ==
    /\ routeWorkers > 1 /\ NumRoutes > routeWorkers
    /\ Cardinality(InProgress) = routeWorkers

\* C30: no step changes the compiled routes, the mode or the batch size of
\* the router, and between the entry of a Route call and the next one the
\* update passed in is not changed.
RouteCallStep == rpc \in {"idle", "done"} /\ rpc' = "loop"

RouteChangesNothingItReads ==
    [][/\ routes' = routes
       /\ mode' = mode
       /\ routeWorkers' = routeWorkers
       /\ ~RouteCallStep => update' = update]_vars

\* A failing Route call on several rules has returned.
RouteFrameWitness ==
    /\ Returned /\ ret.err # Nil /\ rr.err # Nil
    /\ NumRoutes >= 2
    /\ update = "callback"

\* The goroutines of the batch in progress that have ended.
EndedInBatch == { k \in bi..(bi + batchSize - 1) : gpc[k] = "ended" }

\* C38: a Route call returns; a goroutine that is to send finds room in
\* resCh; the goroutines of a batch that have ended have sent one result
\* each, no two for the same route; the wait for the batch ends once they
\* all have; and no goroutine is left when Route has returned.
RouteTerminates ==
    /\ (rpc \notin {"idle", "done"}) ~> Returned
    /\ [](\A k \in DOMAIN gpc :
            gpc[k] = "ready" => Len(resCh) < routeWorkers)
    /\ [](rpc \in {"spawn", "wait", "collect"} =>
           /\ rpc # "collect" => Len(resCh) = Cardinality(EndedInBatch)
           /\ rpc = "collect" =>
                 /\ Cardinality(EndedInBatch) = batchSize
                 /\ Len(resCh) + got = batchSize
           /\ \A p, q \in DOMAIN resCh :
                 resCh[p].idx = resCh[q].idx => p = q)
    /\ [](Returned => \A k \in DOMAIN gpc : gpc[k] # "ready")

\* Route has returned the error of a batch of two while the result of the
\* other goroutine of the batch was still in resCh.
RouteTerminatesWitness ==
    /\ Returned /\ ret.err # Nil
    /\ routeWorkers = 2
    /\ Len(resCh) = 1
    /\ \A k \in DOMAIN gpc : gpc[k] # "ready"


\* =====================================================================
\*  Publisher (the publish worker pool)
\* =====================================================================


Submitters == 1..NumSubmitters
Workers == 1..workers
TaskIds == 1..MaxTasks

\* make(chan publishTask, workers*2)
QueueCapPlusOne == workers * 2 + 1

QueueCap == workers * 2

\* NewPublisher(n, t): the pool as constructed.
NewPublisher(n, t) ==
    /\ workers = n
    /\ timeoutSec = t
    /\ started = FALSE
    /\ pctx = "active"
    /\ tasks = <<>>
    /\ closed = FALSE
    /\ sendq = <<>>
    /\ wpc = [w \in 1..n |-> "none"]
    /\ wtask = [w \in 1..n |-> 0]
    /\ wctx = [w \in 1..n |-> "none"]
    /\ spc = [s \in Submitters |-> "idle"]
    /\ stask = [s \in Submitters |-> 0]
    /\ nextTask = 1
    /\ calls = [t2 \in TaskIds |-> 0]
    /\ failed = FALSE
    /\ sent = {}
    /\ cpc = "idle"
    /\ closeResult = "none"
    /\ clock = 0
    /\ done = FALSE

PoolInit ==
    \E n \in 1..MaxPublishWorkers, t \in 1..MaxTimeoutSec : NewPublisher(n, t)

\* The workers Start spawns: i from 0 below p.workers.
StartedWorkersPlusOne == 1..(workers + 1)

StartedWorkers == 1..workers

\* Start: N workers, each counted in the wait group.
Start ==
    /\ ~started
    /\ cpc = "idle"
    /\ started' = TRUE
    /\ wpc' = [w \in StartedWorkers |-> "select"]
    /\ wtask' = [w \in StartedWorkers |-> 0]
    /\ wctx' = [w \in StartedWorkers |-> "none"]
    /\ UNCHANGED <<workers, timeoutSec, pctx, pchan, psub, plog, pclose>>
    /\ UNCHANGED <<rvars, nvars, bvars, cvars>>

\* wg: the workers that have not run their deferred wg.Done.
wgCount == Cardinality({ w \in Workers : wpc[w] \in {"select", "publishing"} })

\* ---- Publisher.Publish: the select of a caller -------------------------
\* A select with several ready cases takes any one of them; with none it
\* parks the caller on every channel of the select.

\* case <-p.ctx.Done(): return
PublishDrop(s) ==
    /\ spc[s] = "idle"
    /\ nextTask <= MaxTasks
    /\ pctx = "cancelled"
    /\ nextTask' = nextTask + 1
    /\ UNCHANGED <<pcfg, pctx, pchan, pwork, spc, stask, plog, pclose>>
    /\ UNCHANGED <<rvars, nvars, bvars, cvars>>

\* case p.tasks <- task, with room in the buffer
PublishEnqueue(s) ==
    /\ spc[s] = "idle"
    /\ nextTask <= MaxTasks
    /\ ~closed
    /\ Len(tasks) < QueueCap
    /\ tasks' = Append(tasks, nextTask)
    /\ nextTask' = nextTask + 1
    /\ UNCHANGED <<pcfg, pctx, closed, sendq, pwork, spc, stask, plog, pclose>>
    /\ UNCHANGED <<rvars, nvars, bvars, cvars>>

\* case p.tasks <- task, on the closed channel: the send panics. The panic
\* unwinds the calling goroutine, which makes no further call; whether the
\* caller recovers it is outside the pool, and the pool's own goroutines are
\* modelled as going on.
PublishPanic(s) ==
    /\ spc[s] = "idle"
    /\ nextTask <= MaxTasks
    /\ closed
    /\ spc' = [spc EXCEPT ![s] = "panicked"]
    /\ stask' = [stask EXCEPT ![s] = nextTask]
    /\ nextTask' = nextTask + 1
    /\ UNCHANGED <<pcfg, pctx, pchan, pwork, plog, pclose>>
    /\ UNCHANGED <<rvars, nvars, bvars, cvars>>

\* no case is ready: the caller parks on both channels
PublishBlock(s) ==
    /\ spc[s] = "idle"
    /\ nextTask <= MaxTasks
    /\ pctx = "active"
    /\ ~closed
    /\ Len(tasks) >= QueueCap
    /\ spc' = [spc EXCEPT ![s] = "blocked"]
    /\ stask' = [stask EXCEPT ![s] = nextTask]
    /\ sendq' = Append(sendq, s)
    /\ nextTask' = nextTask + 1
    /\ UNCHANGED <<pcfg, pctx, tasks, closed, pwork, plog, pclose>>
    /\ UNCHANGED <<rvars, nvars, bvars, cvars>>

\* a caller whose select has completed returns from Publish
PublishReturns(s) ==
    /\ spc[s] = "woken"
    /\ spc' = [spc EXCEPT ![s] = "idle"]
    /\ stask' = [stask EXCEPT ![s] = 0]
    /\ UNCHANGED <<pcfg, pctx, pchan, pwork, nextTask, plog, pclose>>
    /\ UNCHANGED <<rvars, nvars, bvars, cvars>>

\* ---- Publisher.worker ---------------------------------------------------

\* What is left in the channel after a receive: the head is gone, and the
\* task of the first parked sender, if any, takes the free slot.
AfterRecvKeepHead(q, sq) ==
    IF sq = <<>> THEN q ELSE Append(q, stask[Head(sq)])

AfterRecv(q, sq) ==
    IF sq = <<>> THEN Tail(q) ELSE Append(Tail(q), stask[Head(sq)])

\* context.WithTimeout(p.ctx, 5 s): a child of the context of the pool, done
\* from the start when the pool's context is.
TaskContextBackground == "active"

TaskContext == IF pctx = "cancelled" THEN "cancelled" ELSE "active"

\* case task, ok := <-p.tasks with a task: publishTask(task) calls the
\* transport with the context of the task.
WorkerRecv(w) ==
    /\ wpc[w] = "select"
    /\ tasks # <<>>
    /\ tasks' = AfterRecv(tasks, sendq)
    /\ sendq' = IF sendq = <<>> THEN sendq ELSE Tail(sendq)
    /\ spc' = IF sendq = <<>> THEN spc
              ELSE [spc EXCEPT ![Head(sendq)] = "woken"]
    /\ wpc' = [wpc EXCEPT ![w] = "publishing"]
    /\ wtask' = [wtask EXCEPT ![w] = Head(tasks)]
    /\ wctx' = [wctx EXCEPT ![w] = TaskContext]
    /\ calls' = [calls EXCEPT ![Head(tasks)] = @ + 1]
    /\ UNCHANGED <<pcfg, pctx, closed, stask, nextTask, failed, sent, pclose>>
    /\ UNCHANGED <<rvars, nvars, bvars, cvars>>

\* The receive of WorkerRecv alone: the worker holds the task and has not
\* yet called the transport.
WorkerTakeLast(w) ==
    /\ wpc[w] = "select"
    /\ tasks # <<>>
    /\ tasks' = SubSeq(tasks, 1, Len(tasks) - 1)
    /\ wpc' = [wpc EXCEPT ![w] = "taken"]
    /\ wtask' = [wtask EXCEPT ![w] = tasks[Len(tasks)]]
    /\ UNCHANGED <<pcfg, pctx, closed, sendq, wctx, psub, plog, pclose>>
    /\ UNCHANGED <<rvars, nvars, bvars, cvars>>

WorkerTake(w) ==
    /\ wpc[w] = "select"
    /\ tasks # <<>>
    /\ tasks' = AfterRecv(tasks, sendq)
    /\ sendq' = IF sendq = <<>> THEN sendq ELSE Tail(sendq)
    /\ spc' = IF sendq = <<>> THEN spc
              ELSE [spc EXCEPT ![Head(sendq)] = "woken"]
    /\ wpc' = [wpc EXCEPT ![w] = "taken"]
    /\ wtask' = [wtask EXCEPT ![w] = Head(tasks)]
    /\ UNCHANGED <<pcfg, pctx, closed, wctx, stask, nextTask, plog, pclose>>
    /\ UNCHANGED <<rvars, nvars, bvars, cvars>>

\* publishTask of a worker that holds a task: the context is made and the
\* transport is called.
BeginPublish(w) ==
    /\ wpc[w] = "taken"
    /\ wpc' = [wpc EXCEPT ![w] = "publishing"]
    /\ wctx' = [wctx EXCEPT ![w] = TaskContext]
    /\ calls' = [calls EXCEPT ![wtask[w]] = @ + 1]
    /\ UNCHANGED <<pcfg, pctx, pchan, wtask, psub, failed, sent, pclose>>
    /\ UNCHANGED <<rvars, nvars, bvars, cvars>>

\* return from worker: the loop is left and the deferred wg.Done runs.
WorkerContinue == "select"

WorkerReturn == "exited"

\* case <-p.ctx.Done(): return
WorkerCtxDone(w) ==
    /\ wpc[w] = "select"
    /\ pctx = "cancelled"
    /\ wpc' = [wpc EXCEPT ![w] = WorkerReturn]
    /\ UNCHANGED <<pcfg, pctx, pchan, wtask, wctx, psub, plog, pclose>>
    /\ UNCHANGED <<rvars, nvars, bvars, cvars>>

\* case task, ok := <-p.tasks on the closed, drained channel: !ok, return
WorkerChanClosed(w) ==
    /\ wpc[w] = "select"
    /\ closed
    /\ tasks = <<>>
    /\ wpc' = [wpc EXCEPT ![w] = WorkerReturn]
    /\ UNCHANGED <<pcfg, pctx, pchan, wtask, wctx, psub, plog, pclose>>
    /\ UNCHANGED <<rvars, nvars, bvars, cvars>>

\* The transport's Publish returns to publishTask, with or without an error;
\* an error is logged and the worker goes back to its select.
TransportReturnsRetry(w, ok) ==
    /\ wpc[w] = "publishing"
    /\ wpc' = [wpc EXCEPT ![w] = "select"]
    /\ wtask' = [wtask EXCEPT ![w] = 0]
    /\ wctx' = [wctx EXCEPT ![w] = "none"]
    /\ failed' = (failed \/ ~ok)
    /\ tasks' = IF ok \/ closed \/ Len(tasks) >= QueueCap THEN tasks
                ELSE Append(tasks, wtask[w])
    /\ UNCHANGED <<pcfg, pctx, closed, sendq, psub, calls, sent, pclose>>
    /\ UNCHANGED <<rvars, nvars, bvars, cvars>>

TransportReturnsExit(w, ok) ==
    /\ wpc[w] = "publishing"
    /\ wpc' = [wpc EXCEPT ![w] = IF ok THEN "select" ELSE "exited"]
    /\ wtask' = [wtask EXCEPT ![w] = 0]
    /\ wctx' = [wctx EXCEPT ![w] = "none"]
    /\ failed' = (failed \/ ~ok)
    /\ UNCHANGED <<pcfg, pctx, pchan, psub, calls, sent, pclose>>
    /\ UNCHANGED <<rvars, nvars, bvars, cvars>>

TransportReturns(w, ok) ==
    /\ wpc[w] = "publishing"
    /\ wpc' = [wpc EXCEPT ![w] = "select"]
    /\ wtask' = [wtask EXCEPT ![w] = 0]
    /\ wctx' = [wctx EXCEPT ![w] = "none"]
    /\ failed' = (failed \/ ~ok)
    /\ UNCHANGED <<pcfg, pctx, pchan, psub, calls, sent, pclose>>
    /\ UNCHANGED <<rvars, nvars, bvars, cvars>>

\* NATSClient.Publish as the transport: past the checks of the connection
\* and the marshalling it looks at ctx and, ctx not being done, hands the
\* message to conn.Publish.
ConnPublish(w) ==
    /\ wpc[w] = "publishing"
    /\ wctx[w] = "active"
    /\ wtask[w] \notin sent
    /\ sent' = sent \cup {wtask[w]}
    /\ UNCHANGED <<pcfg, pctx, pchan, pwork, psub, calls, failed, pclose>>
    /\ UNCHANGED <<rvars, nvars, bvars, cvars>>

\* NATSClient.Publish returns: nil only when conn.Publish and Flush have
\* been called; else the error of the connection, of the marshalling or of
\* ctx.
NATSPublishReturns(w, ok) ==
    /\ wpc[w] = "publishing"
    /\ ok => wtask[w] \in sent
    /\ TransportReturns(w, ok)

\* The timeout of the context of a task elapses while the transport call
\* is in progress.
TaskTimeout(w) ==
    /\ wpc[w] = "publishing"
    /\ wctx[w] = "active"
    /\ wctx' = [wctx EXCEPT ![w] = "expired"]
    /\ UNCHANGED <<pcfg, pctx, pchan, wpc, wtask, psub, plog, pclose>>
    /\ UNCHANGED <<rvars, nvars, bvars, cvars>>

\* ---- Publisher.Close ----------------------------------------------------

CloseCall ==
    /\ started
    /\ cpc = "idle"
    /\ cpc' = "cancel"
    /\ UNCHANGED <<pcfg, pctx, pchan, pwork, psub, plog, closeResult, clock, done>>
    /\ UNCHANGED <<rvars, nvars, bvars, cvars>>

\* p.cancel(): the context is done, and with it the contexts derived from
\* it; every caller parked in Publish is woken and leaves the send queue.
CloseCancel ==
    /\ cpc = "cancel"
    /\ pctx' = "cancelled"
    /\ spc' = [s \in Submitters |-> IF spc[s] = "blocked" THEN "woken" ELSE spc[s]]
    /\ sendq' = <<>>
    /\ wctx' = [w \in DOMAIN wctx |->
                  IF wctx[w] = "active" THEN "cancelled" ELSE wctx[w]]
    /\ cpc' = "closechan"
    /\ UNCHANGED <<pcfg, tasks, closed, wpc, wtask, stask, nextTask, plog,
                   closeResult, clock, done>>
    /\ UNCHANGED <<rvars, nvars, bvars, cvars>>

\* close(p.tasks); the waiting goroutine and the timer are started.
CloseChan ==
    /\ cpc = "closechan"
    /\ closed' = TRUE
    /\ cpc' = "waiting"
    /\ clock' = 0
    /\ UNCHANGED <<pcfg, pctx, tasks, sendq, pwork, psub, plog, closeResult, done>>
    /\ UNCHANGED <<rvars, nvars, bvars, cvars>>

\* go func() { p.wg.Wait(); close(done) }()
Waiter ==
    /\ cpc \in {"waiting", "returned"}
    /\ ~done
    /\ wgCount = 0
    /\ done' = TRUE
    /\ UNCHANGED <<pcfg, pctx, pchan, pwork, psub, plog, cpc, closeResult, clock>>
    /\ UNCHANGED <<rvars, nvars, bvars, cvars>>

\* case <-done
CloseDone ==
    /\ cpc = "waiting"
    /\ done
    /\ cpc' = "returned"
    /\ closeResult' = "closed"
    /\ UNCHANGED <<pcfg, pctx, pchan, pwork, psub, plog, clock, done>>
    /\ UNCHANGED <<rvars, nvars, bvars, cvars>>

\* case <-time.After(timeoutSec seconds)
CloseTimeoutNever ==
    /\ FALSE
    /\ UNCHANGED <<rvars, pvars>>

CloseTimeout ==
    /\ cpc = "waiting"
    /\ clock >= timeoutSec
    /\ cpc' = "returned"
    /\ closeResult' = "timeout"
    /\ UNCHANGED <<pcfg, pctx, pchan, pwork, psub, plog, clock, done>>
    /\ UNCHANGED <<rvars, nvars, bvars, cvars>>

\* Close called again after a Close has returned: p.cancel() does nothing
\* on a cancelled context and close(p.tasks) panics, the channel being
\* closed.
CloseAgain ==
    /\ cpc = "returned"
    /\ closed
    /\ cpc' = "panicked"
    /\ UNCHANGED <<pcfg, pctx, pchan, pwork, psub, plog, closeResult, clock, done>>
    /\ UNCHANGED <<rvars, nvars, bvars, cvars>>

\* A second passes while Close waits. Steps that take no time come first:
\* time passes only when no worker stands at its select with a ready case
\* and the waiting goroutine has nothing to do.
Tick ==
    /\ cpc = "waiting"
    /\ clock < timeoutSec
    /\ ~done
    /\ wgCount # 0
    /\ \A w \in Workers :
         ~ENABLED WorkerCtxDone(w) /\ ~ENABLED WorkerRecv(w)
            /\ ~ENABLED WorkerChanClosed(w)
    /\ clock' = clock + 1
    /\ UNCHANGED <<pcfg, pctx, pchan, pwork, psub, plog, cpc, closeResult, done>>
    /\ UNCHANGED <<rvars, nvars, bvars, cvars>>

Publish(s) ==
    \/ PublishDrop(s)
    \/ PublishEnqueue(s)
    \/ PublishPanic(s)
    \/ PublishBlock(s)

worker(w) ==
    \/ WorkerRecv(w)
    \/ WorkerCtxDone(w)
    \/ WorkerChanClosed(w)

Close ==
    \/ CloseCall
    \/ CloseCancel
    \/ CloseChan
    \/ Waiter
    \/ CloseDone
    \/ CloseTimeout
    \/ Tick
    \/ CloseAgain

PoolNext ==
    \/ Start
    \/ \E s \in Submitters : Publish(s)
    \/ \E s \in Submitters : PublishReturns(s)
    \/ \E w \in DOMAIN wpc : worker(w)
    \/ \E w \in DOMAIN wpc, ok \in BOOLEAN : TransportReturns(w, ok)
    \/ Close

\* The pool with the timeouts of the contexts of the tasks.
PoolCtxNext ==
    \/ Start
    \/ \E s \in Submitters : Publish(s)
    \/ \E s \in Submitters : PublishReturns(s)
    \/ \E w \in DOMAIN wpc : worker(w)
    \/ \E w \in DOMAIN wpc, ok \in BOOLEAN : TransportReturns(w, ok)
    \/ \E w \in DOMAIN wpc : TaskTimeout(w)
    \/ Close

\* The pool while Close is not called.
PoolRunNext ==
    \/ Start
    \/ \E s \in Submitters : PublishEnqueue(s) \/ PublishBlock(s)
    \/ \E s \in Submitters : PublishReturns(s)
    \/ \E w \in DOMAIN wpc : WorkerRecv(w)
    \/ \E w \in DOMAIN wpc, ok \in BOOLEAN : TransportReturns(w, ok)

\* The pool with one caller of Publish while Close is not called, the
\* receive of a worker and its call of the transport being two steps.
PoolOrderNext ==
    \/ Start
    \/ PublishEnqueue(1) \/ PublishBlock(1)
    \/ PublishReturns(1)
    \/ \E w \in DOMAIN wpc : WorkerTake(w)
    \/ \E w \in DOMAIN wpc : BeginPublish(w)
    \/ \E w \in DOMAIN wpc, ok \in BOOLEAN : TransportReturns(w, ok)

\* ---------------------------------------------------------------------
\*  Properties of the pool
\* ---------------------------------------------------------------------
Queued == { tasks[k] : k \in DOMAIN tasks }

\* A step of Publish: it takes the next task.
PublishStep == nextTask' # nextTask

\* C3: after Close has returned, a Publish call returns at once, without
\* panic, and changes nothing.
PublishAfterCloseIsNoOp ==
    [][(cpc = "returned" /\ PublishStep)
         => (spc' = spc /\ tasks' = tasks /\ calls' = calls)]_vars

\* C9: once the context of the pool is cancelled, no Publish call places its
\* task in the queue.
NoEnqueueAfterCancel ==
    [][(pctx = "cancelled" /\ PublishStep) => tasks' = tasks]_vars

\* C4: a task reaches the transport at most once and is with at most one
\* worker; once taken from the queue it is never back in it, failed or not.
AtMostOncePerTask ==
    \A t \in TaskIds :
      /\ calls[t] <= 1
      /\ Cardinality({ w \in Workers : wtask[w] = t }) <= 1
      /\ calls[t] = 1 => t \notin Queued

\* Two workers are publishing different tasks after the publish of another
\* task failed.
AtMostOnceWitness ==
    /\ failed
    /\ \E w1, w2 \in Workers :
         /\ w1 # w2
         /\ wpc[w1] = "publishing" /\ wpc[w2] = "publishing"
         /\ wtask[w1] # wtask[w2]

\* C5: while Close is not called and every transport call returns, every
\* submitted task eventually reaches the transport and no caller of Publish
\* stays parked.
AllSubmittedPublished ==
    /\ \A t \in TaskIds : (nextTask > t) ~> (calls[t] = 1)
    /\ \A s \in Submitters : (spc[s] = "blocked") ~> (spc[s] = "idle")

\* More tasks than workers were submitted, a publish failed on the way, and
\* all of them have reached the transport.
AllPublishedWitness ==
    /\ nextTask > MaxTasks
    /\ MaxTasks > workers
    /\ failed
    /\ \A t \in TaskIds : calls[t] = 1

\* C6: Close returns; it logs "closed" only when every worker has exited and
\* "timeout" only when the timeout has elapsed; the timeout elapses only
\* with a worker inside the transport's Publish, and Close does not wait
\* past it.
CloseAlwaysReturns ==
    /\ (cpc \in {"cancel", "closechan", "waiting"}) ~> (cpc = "returned")
    /\ [](closeResult = "closed" => \A w \in Workers : wpc[w] = "exited")
    /\ [](closeResult = "timeout" => clock = timeoutSec)
    /\ [](cpc = "waiting" => clock <= timeoutSec)
    /\ [][(clock' = timeoutSec /\ clock # timeoutSec)
            => \E w \in Workers : wpc[w] = "publishing"]_vars
    /\ [][(closeResult' = "timeout" /\ closeResult # "timeout")
            => wpc' = wpc]_vars

\* Close has returned on the timeout and a worker is still inside the
\* transport's Publish.
CloseTimeoutWitness ==
    /\ cpc = "returned"
    /\ closeResult = "timeout"
    /\ \E w \in Workers : wpc[w] = "publishing"

\* C10: a Publish call made while the queue holds 2N tasks parks its caller;
\* a parked caller leaves only because a worker freed a slot (its task is
\* then queued) or because the pool is shut down (its task is then dropped,
\* without panic); once Close is called a parked caller returns.
FullQueueBlocksUntilSlotOrShutdown ==
    /\ [][(PublishStep /\ Len(tasks) = 2 * workers /\ pctx = "active")
            => /\ tasks' = tasks
               /\ \E s \in Submitters :
                    spc[s] = "idle" /\ spc'[s] = "blocked"]_vars
    /\ [][\A s \in Submitters :
            (spc[s] = "blocked" /\ spc'[s] # "blocked")
            => /\ spc'[s] = "woken"
               /\ \/ /\ \E w \in Workers :
                          wpc[w] = "select" /\ wpc'[w] = "publishing"
                     /\ tasks'[Len(tasks')] = stask[s]
                  \/ /\ pctx = "active" /\ pctx' = "cancelled"
                     /\ tasks' = tasks
                     /\ stask[s] \notin Queued]_vars
    /\ \A s \in Submitters :
         (spc[s] = "blocked" /\ cpc # "idle") ~> (spc[s] = "idle")

\* A caller parked on the full queue has been woken by the shutdown and its
\* task is not in the queue.
BlockedWokenByShutdownWitness ==
    \E s \in Submitters :
      /\ spc[s] = "woken"
      /\ pctx = "cancelled"
      /\ stask[s] \notin Queued
      /\ Len(tasks) = 2 * workers

\* C21: once the context of the pool is cancelled no worker takes a task
\* from the queue, so no task reaches the transport from then on.
NoTaskTakenAfterCancel ==
    [][pctx = "cancelled" => calls' = calls]_vars

\* The workers inside the transport's Publish.
Publishing == { w \in DOMAIN wpc : wpc[w] = "publishing" }

\* C22: the context handed to a transport call in progress ends only when
\* its own timeout elapses; the cancellation of the pool does not end it.
InFlightContextEndsOnlyByTimeout ==
    [][\A w \in Publishing :
         (wctx[w] = "active" /\ w \in Publishing' /\ wctx'[w] # "active")
         => wctx'[w] = "expired"]_vars

\* C26: the queue never holds more than 2N tasks.
QueueAtMostTwoN == Len(tasks) <= 2 * workers

\* The queue holds 2N tasks, a caller is parked on it and a worker is about
\* to free a slot.
QueueFullWitness ==
    /\ Len(tasks) = 2 * workers
    /\ sendq # <<>>
    /\ \E w \in Workers : wpc[w] = "select"

\* C27: after Start at most N transport calls are in progress.
AtMostNPublishing == Cardinality(Publishing) <= workers

\* Every one of two workers is inside the transport's Publish and a task
\* waits in the queue.
AllWorkersPublishingWitness ==
    /\ workers = 2
    /\ Cardinality(Publishing) = workers
    /\ tasks # <<>>

\* C28: before shutdown the N workers are all alive, whatever number of
\* transport calls has failed, and a worker whose call fails is back at the
\* select of its loop.
FailedPublishKeepsWorker ==
    /\ [](started /\ cpc = "idle" => wgCount = workers)
    /\ [][\A w \in Workers :
            (wpc[w] = "publishing" /\ wpc'[w] # "publishing")
            => wpc'[w] = "select"]_vars

\* The only worker of the pool is publishing again after a call of its own
\* has failed, and Close has not been called.
WorkerAliveAfterFailureWitness ==
    /\ workers = 1
    /\ failed
    /\ cpc = "idle"
    /\ wpc[1] = "publishing"

\* C29: once Close is called every worker eventually exits, when every
\* transport call in progress returns.
WorkersExitAfterClose ==
    /\ (cpc # "idle") ~> (\A w \in Workers : wpc[w] = "exited")
    /\ [][\A w \in Workers : wpc[w] = "exited" => wpc'[w] = "exited"]_vars

\* Every worker has exited after Close found tasks in the queue, one of
\* which was never taken.
WorkersExitedWitness ==
    /\ cpc = "returned"
    /\ \A w \in Workers : wpc[w] = "exited"
    /\ tasks # <<>>
    /\ \E t \in TaskIds : calls[t] = 1

CallBegins(b) == calls[b] = 0 /\ calls'[b] = 1

\* A worker receives task b in this step.
TaskTaken(b) ==
    \E w \in Workers :
       wpc[w] = "select" /\ wpc'[w] = "taken" /\ wtask'[w] = b

\* C39 as stated: with one caller of Publish, task ids are given in the
\* order of submission, and when the transport call for a task begins the
\* call for every task submitted before it has begun, for every N.
CallsBeginInSubmissionOrder ==
    [][\A b \in TaskIds :
         CallBegins(b) => \A a \in 1..(b - 1) : calls[a] = 1]_vars

\* C39 amended: with one caller of Publish the workers receive the tasks
\* in the order of submission for every N, and with N = 1 the transport
\* calls begin in that order.
TakenInSubmissionOrder ==
    /\ [][\A b \in TaskIds :
            TaskTaken(b) =>
               \A a \in 1..(b - 1) :
                  a \notin Queued /\ (calls[a] = 1 \/ \E w \in Workers :
                                                      wtask[w] = a)]_vars
    /\ [][workers = 1 =>
            \A b \in TaskIds :
              CallBegins(b) => \A a \in 1..(b - 1) : calls[a] = 1]_vars

\* Of two workers the one that received the later task has called the
\* transport and the other one has not yet.
TakenInOrderWitness ==
    /\ workers = 2
    /\ wpc[1] = "taken" /\ wpc[2] = "publishing"
    /\ wtask[1] < wtask[2]

\* C36: a Close call made after a Close has returned does not panic.
SecondCloseDoesNotPanic == cpc # "panicked"

\* =====================================================================
\*  NewRouter (the rule compiler)
\* =====================================================================

\* A rule of the configuration.
Rule(c, t, v) == [Condition |-> c, Subject |-> [Type |-> t, Value |-> v]]

\* The rules a configuration can list; "badSyntax" is a text that is no
\* expression.
RuleInputs ==
    { Rule("hasMessage", SubjectTypeString, "tg.msg"),
      Rule("hasMessage", SubjectTypeExpr, "fromUsername"),
      Rule("hasMessage", SubjectTypeString, ""),
      Rule("badSyntax", SubjectTypeExpr, "badSyntax"),
      Rule("hasCallback", SubjectTypeExpr, "badSyntax") }

\* The expressions whose type is known to be string when they are compiled.
StringTyped == {"fromSubject"}

\* expr.Compile(source, expr.Env(env)), with expr.AsBool() when asBool: the
\* program, or the compile error.
Compile(source, asBool) ==
    IF source \notin Programs
    THEN [program |-> "none", err |-> <<"syntax", source>>]
    ELSE IF asBool /\ source \in StringTyped
    THEN [program |-> "none", err |-> <<"expected bool", source>>]
    ELSE [program |-> source, err |-> Nil]

\* The errors of a compile task. i is the 1-based index of the rule: the
\* message of the source prints i - 1.
SubjErrorAsCond(i, cause) == <<"failed to compile condition for route", i, cause>>

CondError(i, cause) == <<"failed to compile condition for route", i, cause>>

SubjError(i, cause) ==
    <<"failed to compile subject expression for route", i, cause>>

\* The zero value of compiledRoute.
ZeroRoute ==
    [condition |-> "none", subjectType |-> "", subjectStatic |-> "",
     subjectExpr |-> "none"]

\* The body of the compile task of rule i: the error it returns and the
\* compiled route it stores when it returns none.
CompileRule(i, route) ==
    LET c == Compile(route.Condition, TRUE) IN
    IF c.err # Nil
    THEN [err |-> CondError(i, c.err), route |-> ZeroRoute]
    ELSE IF route.Subject.Type = SubjectTypeString
    THEN [err |-> Nil,
          route |-> [condition |-> c.program,
                     subjectType |-> route.Subject.Type,
                     subjectStatic |-> route.Subject.Value,
                     subjectExpr |-> "none"]]
    ELSE IF route.Subject.Type = SubjectTypeExpr
    THEN LET e == Compile(route.Subject.Value, FALSE) IN
         IF e.err # Nil
         THEN [err |-> SubjError(i, e.err), route |-> ZeroRoute]
         ELSE [err |-> Nil,
               route |-> [condition |-> c.program,
                          subjectType |-> route.Subject.Type,
                          subjectStatic |-> "",
                          subjectExpr |-> e.program]]
    ELSE [err |-> Nil,
          route |-> [condition |-> c.program,
                     subjectType |-> route.Subject.Type,
                     subjectStatic |-> "",
                     subjectExpr |-> "none"]]

\* No NewRouter call has been made.
NoNewRouter ==
    /\ cfgRoutes = <<>>
    /\ npc = "idle"
    /\ ni = 0
    /\ numWorkers = 0
    /\ cgo = <<>>
    /\ compiledRoutes = <<>>
    /\ writers = <<>>
    /\ egErr = Nil
    /\ nret = [router |-> FALSE, err |-> Nil]

\* No Router has been constructed: nothing to call Route on.
RouterAbsent ==
    /\ routes = <<>> /\ mode = "first" /\ routeWorkers = 1
    /\ update = "message"
    /\ rpc = "none"
    /\ bi = 1 /\ bj = 0
    /\ gpc = <<>> /\ resCh = <<>> /\ results = <<>>
    /\ got = 0 /\ match = FALSE
    /\ rr = ZeroResult
    /\ ret = NoReturn

\* NewRouter is entered: the slice of compiled routes is made, the errgroup
\* gets its limit. mode and routeWorkers hold the arguments from here on;
\* the Router gets them unchanged.
NewRouterCall(rs, m, w, procs) ==
    /\ npc = "idle"
    /\ cfgRoutes' = rs
    /\ mode' = m
    /\ routeWorkers' = w
    /\ compiledRoutes' = [k \in 1..Len(rs) |-> ZeroRoute]
    /\ writers' = [k \in 1..Len(rs) |-> {}]
    /\ numWorkers' = Min(procs, Len(rs))
    /\ egErr' = Nil
    /\ cgo' = [k \in 1..Len(rs) |-> "none"]
    /\ ni' = 1
    /\ npc' = "spawn"
    /\ UNCHANGED <<nret, routes, update, rpc, bi, bj, gpc, resCh, results,
                   got, match, rr, ret>>
    /\ UNCHANGED <<pvars, bvars, cvars>>

\* The compile tasks that have been started and have not returned.
Compiling == { k \in DOMAIN cgo : cgo[k] = "running" }

\* eg.Go for rule i: it waits while numWorkers tasks are running. Past the
\* last rule the loop ends and eg.Wait is called.
EgGo ==
    /\ npc = "spawn"
    /\ IF ni <= Len(cfgRoutes)
       THEN /\ Cardinality(Compiling) < numWorkers
            /\ cgo' = [cgo EXCEPT ![ni] = "running"]
            /\ ni' = ni + 1
            /\ UNCHANGED npc
       ELSE /\ npc' = "wait"
            /\ UNCHANGED <<cgo, ni>>
    /\ UNCHANGED <<cfgRoutes, numWorkers, compiledRoutes, writers, egErr,
                   nret>>
    /\ UNCHANGED <<rvars, pvars, bvars, cvars>>

\* The slot the task of rule idx writes: compiledRoutes[i], with the i of
\* its own iteration.
SlotOfLoopVar(idx) == Min(ni, Len(cfgRoutes))

SlotOf(idx) == idx

\* A compile task runs to its end: it returns an error, which the errgroup
\* keeps when it is the first, or stores the compiled route and returns nil.
CompileTask(idx) ==
    /\ cgo[idx] = "running"
    /\ LET r == CompileRule(idx, cfgRoutes[idx]) IN
       IF r.err # Nil
       THEN /\ egErr' = IF egErr = Nil THEN r.err ELSE egErr
            /\ UNCHANGED <<compiledRoutes, writers>>
       ELSE /\ compiledRoutes' =
                   [compiledRoutes EXCEPT ![SlotOf(idx)] = r.route]
            /\ writers' = [writers EXCEPT ![SlotOf(idx)] = @ \cup {idx}]
            /\ UNCHANGED egErr
    /\ cgo' = [cgo EXCEPT ![idx] = "ended"]
    /\ UNCHANGED <<cfgRoutes, npc, ni, numWorkers, nret>>
    /\ UNCHANGED <<rvars, pvars, bvars, cvars>>

\* What NewRouter returns after eg.Wait: the error of the errgroup and no
\* router, or the router over the compiled routes.
NewRouterResultPartial(err, slots) ==
    [router |-> TRUE, routes |-> slots, err |-> err]

NewRouterResultRejectEmpty(err, slots) ==
    IF err # Nil \/ slots = <<>>
    THEN [router |-> FALSE, routes |-> <<>>, err |-> <<"no routes">>]
    ELSE [router |-> TRUE, routes |-> slots, err |-> Nil]

NewRouterResult(err, slots) ==
    IF err # Nil
    THEN [router |-> FALSE, routes |-> <<>>, err |-> err]
    ELSE [router |-> TRUE, routes |-> slots, err |-> Nil]

\* eg.Wait returns once every task has returned, and NewRouter returns. Its
\* locals i and numWorkers are gone then.
EgWait ==
    /\ npc = "wait"
    /\ \A k \in DOMAIN cgo : cgo[k] = "ended"
    /\ LET res == NewRouterResult(egErr, compiledRoutes) IN
       /\ nret' = [router |-> res.router, err |-> res.err]
       /\ IF res.router
          THEN /\ routes' = res.routes
               /\ rpc' = "idle"
               /\ gpc' = [k \in 1..Len(res.routes) |-> "none"]
               /\ results' = [k \in 1..Len(res.routes) |-> ZeroResult]
          ELSE UNCHANGED <<routes, rpc, gpc, results>>
    /\ npc' = "done"
    /\ ni' = 0
    /\ numWorkers' = 0
    /\ UNCHANGED <<cfgRoutes, cgo, compiledRoutes, writers, egErr>>
    /\ UNCHANGED <<mode, routeWorkers, update, bi, bj, resCh, got, match,
                   rr, ret>>
    /\ UNCHANGED <<pvars, bvars, cvars>>

\* NewRouter, then Route calls on the router it returned.
\* NewRouter is called once, with some rule list, mode, number of route
\* workers and GOMAXPROCS.
NewRouter ==
    /\ npc = "idle"
    /\ \E rs \in SeqsUpTo(RuleInputs, MaxRoutes), m \in Modes,
          w \in 1..MaxRouteWorkers, procs \in 1..MaxProcs :
          NewRouterCall(rs, m, w, procs)

NewRouterNext ==
    \/ NewRouter
    \/ EgGo
    \/ \E idx \in DOMAIN cgo : CompileTask(idx)
    \/ EgWait
    \/ \E u \in Updates : RouteCall(u)
    \/ LoopHead
    \/ Spawn
    \/ \E idx \in DOMAIN gpc : GoEval(idx)
    \/ Wait
    \/ Collect
    \/ BatchEnd

\* ---------------------------------------------------------------------
\*  What the compiler says about the rules of the call, rule by rule
\* ---------------------------------------------------------------------
FailsCond(i) == Compile(cfgRoutes[i].Condition, TRUE).err # Nil

FailsSubj(i) ==
    /\ ~FailsCond(i)
    /\ cfgRoutes[i].Subject.Type = SubjectTypeExpr
    /\ Compile(cfgRoutes[i].Subject.Value, FALSE).err # Nil

NumRules == Len(cfgRoutes)

Constructed == npc = "done"

\* C12: NewRouter on an empty rule list returns a router and no error, the
\* router has no compiled route, and every Route call on it returns the
\* empty result and no error, in both modes.
EmptyRuleListRoutesNothing ==
    (Constructed /\ cfgRoutes = <<>>)
    => /\ nret = [router |-> TRUE, err |-> Nil]
       /\ routes = <<>>
       /\ rpc # "none"
       /\ Returned => ret = [subjects |-> <<>>, err |-> Nil]

\* A Route call on the router of an empty rule list has returned, in mode
\* "all".
EmptyRuleListWitness ==
    /\ Constructed /\ cfgRoutes = <<>> /\ nret.router
    /\ Returned /\ mode = "all" /\ update = "callback"
    /\ ret = [subjects |-> <<>>, err |-> Nil]

\* C13: the error NewRouter returns names a rule that does not compile and
\* the phase in which it fails: "condition" when its condition does not
\* compile, "subject expression" when its condition compiles and its
\* subject expression does not. When some rule does not compile, NewRouter
\* returns an error.
CompileErrorNamesRuleAndPhase ==
    Constructed =>
      /\ (\E i \in 1..NumRules : FailsCond(i) \/ FailsSubj(i))
            => nret.err # Nil
      /\ nret.err # Nil =>
            \E i \in 1..NumRules :
               /\ nret.err[2] = i
               /\ \/ /\ FailsCond(i)
                     /\ nret.err[1] = "failed to compile condition for route"
                     /\ nret.err[3] = Compile(cfgRoutes[i].Condition, TRUE).err
                  \/ /\ FailsSubj(i)
                     /\ nret.err[1] =
                          "failed to compile subject expression for route"
                     /\ nret.err[3] =
                          Compile(cfgRoutes[i].Subject.Value, FALSE).err

\* The condition of a rule does not compile, the subject expression of a
\* later rule does not either, and the error names the later rule and the
\* subject phase.
CompileErrorWitness ==
    /\ Constructed
    /\ \E i, k \in 1..NumRules :
          /\ i < k /\ FailsCond(i) /\ FailsSubj(k)
          /\ nret.err[2] = k
          /\ nret.err[1] = "failed to compile subject expression for route"

\* C14: NewRouter is all-or-nothing. When some rule does not compile it
\* returns an error and no router; it returns a router only with no error
\* and every rule compiled.
CompileAllOrNothing ==
    Constructed =>
      /\ (\E i \in 1..NumRules : FailsCond(i) \/ FailsSubj(i))
            => (nret.err # Nil /\ ~nret.router)
      /\ ~nret.router => (rpc = "none" /\ routes = <<>>)
      /\ nret.router =>
            /\ nret.err = Nil
            /\ Len(routes) = NumRules
            /\ \A i \in 1..NumRules :
                  ~FailsCond(i) /\ ~FailsSubj(i) /\ routes[i] # ZeroRoute

\* A rule has been compiled and stored, another rule does not compile, and
\* NewRouter has returned the error and no router.
CompileNothingWitness ==
    /\ Constructed /\ ~nret.router /\ nret.err # Nil
    /\ rpc = "none"
    /\ \E k \in 1..NumRules : compiledRoutes[k] # ZeroRoute

\* C15: every slot of compiledRoutes is written by the task of its own
\* rule only, a task that has ended without error has stored the compiled
\* form of its rule in the slot of its index, and the routes of the router
\* NewRouter returns are the compiled forms of the rules, in their order.
CompiledRoutesAlignWithRules ==
    /\ \A k \in DOMAIN writers : writers[k] \subseteq {k}
    /\ \A k \in DOMAIN cgo :
          (cgo[k] = "ended" /\ ~FailsCond(k) /\ ~FailsSubj(k))
          => compiledRoutes[k] = CompileRule(k, cfgRoutes[k]).route
    /\ (Constructed /\ nret.router) =>
          /\ Len(routes) = NumRules
          /\ \A k \in 1..NumRules :
                routes[k] = CompileRule(k, cfgRoutes[k]).route

\* The task of a rule has stored its route while the task of an earlier,
\* different rule is still running.
CompiledOutOfOrderWitness ==
    \E k \in 1..(NumRules - 1) :
       /\ cgo[k] = "running" /\ cgo[k + 1] = "ended"
       /\ cfgRoutes[k] # cfgRoutes[k + 1]
       /\ ~FailsCond(k) /\ ~FailsSubj(k)
       /\ compiledRoutes[k + 1] # ZeroRoute
       /\ compiledRoutes[k] = ZeroRoute

\* C18: every subject a Route call returns, on a router NewRouter has
\* returned, is a non-empty string.
SubjectsNonEmpty ==
    (Constructed /\ nret.router /\ Returned)
    => \A p \in DOMAIN ret.subjects : ret.subjects[p] # ""

\* C40: when several rules do not compile, the error NewRouter returns
\* names the one of lowest index.
CompileErrorNamesLowestRule ==
    (Constructed /\ nret.err # Nil) =>
       /\ FailsCond(nret.err[2]) \/ FailsSubj(nret.err[2])
       /\ \A i \in 1..(nret.err[2] - 1) : ~FailsCond(i) /\ ~FailsSubj(i)

\* =====================================================================
\*  runBridge (the ingestion loop) with the sequential Route
\* =====================================================================

\* Route of the sequential router: the rules in order; the result is a set
\* of subjects (the keys of the map), or an error that names the stage.
RouteFromNoStop(rs, m, u, k, result) ==
    [subjects |-> { EvalRoute(n, rs[n], u).subj :
                      n \in { i \in DOMAIN rs : EvalRoute(i, rs[i], u).cond } },
     err |-> Nil]

RECURSIVE RouteFrom(_, _, _, _, _)
RouteFrom(rs, m, u, k, result) ==
    IF k > Len(rs) THEN [subjects |-> result, err |-> Nil]
    ELSE
      LET c == runExpr("bool", rs[k].condition, u) IN
      IF c.err # Nil
      THEN [subjects |-> {}, err |-> <<"condition evaluation error", c.err>>]
      ELSE IF ~c.val.b THEN RouteFrom(rs, m, u, k + 1, result)
      ELSE
        LET e == IF rs[k].subjectType = SubjectTypeString
                 THEN [val |-> StrVal(rs[k].subjectStatic), err |-> Nil]
                 ELSE IF rs[k].subjectType = SubjectTypeExpr
                 THEN runExpr("string", rs[k].subjectExpr, u)
                 ELSE [val |-> StrVal(""), err |-> Nil]
        IN IF e.err # Nil
           THEN [subjects |-> {},
                 err |-> <<"subject expression evaluation error", e.err>>]
           ELSE IF m = "first"
           THEN [subjects |-> result \cup {e.val.s}, err |-> Nil]
           ELSE RouteFrom(rs, m, u, k + 1, result \cup {e.val.s})

SeqRoute(rs, m, u) == RouteFrom(rs, m, u, 1, {})

\* The result of getUpdates for an offset: the updates of the feed whose
\* update_id is at least the offset, in the order of their ids.
FeedFrom(off) ==
    LET first == IF off > 1 THEN off ELSE 1 IN
    [k \in 1..(Len(feed) - first + 1) |->
        [update_id |-> first + k - 1, kind |-> feed[first + k - 1]]]

\* The next offset GetUpdatesWithTimeout computes: one past the greatest
\* update_id of the result that is not below the offset.
NextOffsetLast(result, k, n) ==
    IF result = <<>> THEN n ELSE result[Len(result)].update_id + 1

RECURSIVE NextOffsetFrom(_, _, _)
NextOffsetFrom(result, k, n) ==
    IF k > Len(result) THEN n
    ELSE NextOffsetFrom(result, k + 1,
                        IF result[k].update_id >= n
                        THEN result[k].update_id + 1 ELSE n)

\* The compiled routes the router of the loop can hold.
BridgeRoutes ==
    { StaticRoute("hasMessage", "tg.msg"),
      ExprRoute("hasMessage", "fromSubject"),
      StaticRoute("chatPositive", "tg.msg") }

\* runBridge has made its router and enters the loop; the feed is empty.
BridgeInit ==
    /\ feed = <<>>
    /\ bctx = "active"
    /\ bpc = "head"
    /\ offset = 0
    /\ updates = <<>>
    /\ nextOffset = 0
    /\ bk = 1
    /\ subjects = {}
    /\ routeLog = <<>>
    /\ pubLog = <<>>

\* The ingestion loop is not running.
NoBridge ==
    /\ feed = <<>>
    /\ bctx = "active"
    /\ bpc = "none"
    /\ offset = 0
    /\ updates = <<>>
    /\ nextOffset = 0
    /\ bk = 1
    /\ subjects = {}
    /\ routeLog = <<>>
    /\ pubLog = <<>>

\* An update reaches the feed.
Arrive(kind) ==
    /\ Len(feed) < MaxUpdates
    /\ feed' = Append(feed, kind)
    /\ UNCHANGED <<bctx, bpc, offset, updates, nextOffset, bk, subjects,
                   routeLog, pubLog>>
    /\ UNCHANGED <<rvars, pvars, nvars, cvars>>

\* A signal arrives: cancel().
Signal ==
    /\ bpc # "none"
    /\ bctx = "active"
    /\ bctx' = "cancelled"
    /\ UNCHANGED <<feed, bpc, offset, updates, nextOffset, bk, subjects,
                   routeLog, pubLog>>
    /\ UNCHANGED <<rvars, pvars, nvars, cvars>>

\* The head of the loop without its look at ctx.
BridgeLoopHeadNoCheck ==
    /\ bpc = "head"
    /\ bpc' = "poll"
    /\ UNCHANGED <<feed, bctx, offset, updates, nextOffset, bk, subjects,
                   routeLog, pubLog>>
    /\ UNCHANGED <<rvars, pvars, nvars, cvars>>

\* The head of the loop: return when ctx is done, else poll.
BridgeLoopHead ==
    /\ bpc = "head"
    /\ bpc' = IF bctx = "cancelled" THEN "exit" ELSE "poll"
    /\ UNCHANGED <<feed, bctx, offset, updates, nextOffset, bk, subjects,
                   routeLog, pubLog>>
    /\ UNCHANGED <<rvars, pvars, nvars, cvars>>

\* GetUpdates returns without error: the updates from the offset on and
\* the next offset; or, when the request was cancelled, no update and the
\* offset unchanged.
GetUpdatesOk ==
    /\ bpc = "poll"
    /\ IF bctx = "cancelled"
       THEN /\ updates' = <<>>
            /\ nextOffset' = offset
       ELSE /\ updates' = FeedFrom(offset)
            /\ nextOffset' = NextOffsetFrom(FeedFrom(offset), 1, offset)
    /\ bk' = 1
    /\ bpc' = "range"
    /\ UNCHANGED <<feed, bctx, offset, subjects, routeLog, pubLog>>
    /\ UNCHANGED <<rvars, pvars, nvars, cvars>>

\* The results a server that does not honour the offset can send: updates
\* in any order, below the offset or repeated.
PollResults ==
    SeqsUpTo([update_id : 1..MaxPollId, kind : {"message"}], MaxPollLen)

\* GetUpdates returns without error whatever result the server sent; or,
\* when the request was cancelled, no update and the offset unchanged.
GetUpdatesAny(result) ==
    /\ bpc = "poll"
    /\ Len(routeLog) + Len(result) <= MaxPollLog
    /\ IF bctx = "cancelled"
       THEN /\ updates' = <<>>
            /\ nextOffset' = offset
       ELSE /\ updates' = result
            /\ nextOffset' = NextOffsetFrom(result, 1, offset)
    /\ bk' = 1
    /\ bpc' = "range"
    /\ UNCHANGED <<feed, bctx, offset, subjects, routeLog, pubLog>>
    /\ UNCHANGED <<rvars, pvars, nvars, cvars>>

\* GetUpdates returns an error with the offset it was given and no update,
\* and the loop advances the offset all the same.
GetUpdatesFailAdvance ==
    /\ bpc = "poll"
    /\ bpc' = IF bctx = "cancelled" THEN "exit" ELSE "head"
    /\ updates' = <<>>
    /\ nextOffset' = offset
    /\ offset' = offset + 1
    /\ UNCHANGED <<feed, bctx, bk, subjects, routeLog, pubLog>>
    /\ UNCHANGED <<rvars, pvars, nvars, cvars>>

\* GetUpdates returns an error: return when ctx is done, else log, sleep
\* and go round again.
GetUpdatesFail ==
    /\ bpc = "poll"
    /\ bpc' = IF bctx = "cancelled" THEN "exit" ELSE "head"
    /\ updates' = <<>>
    /\ nextOffset' = offset
    /\ UNCHANGED <<feed, bctx, offset, bk, subjects, routeLog, pubLog>>
    /\ UNCHANGED <<rvars, pvars, nvars, cvars>>

\* Where the range over updates goes on after a Route error: continue.
AfterRouteErrorBreak(k) == Len(updates) + 1

AfterRouteError(k) == k + 1

\* The next update of the range is routed. An error is logged and the
\* range goes on with the next update; else its subjects are ranged over.
RouteUpdate ==
    /\ bpc = "range"
    /\ bk <= Len(updates)
    /\ LET r == SeqRoute(routes, mode, updates[bk].kind) IN
       /\ routeLog' = Append(routeLog,
                             [update_id |-> updates[bk].update_id,
                              ok |-> r.err = Nil])
       /\ IF r.err # Nil
          THEN /\ bk' = AfterRouteError(bk)
               /\ UNCHANGED <<bpc, subjects>>
          ELSE /\ subjects' = r.subjects
               /\ bpc' = "publish"
               /\ UNCHANGED bk
    /\ UNCHANGED <<feed, bctx, offset, updates, nextOffset, pubLog>>
    /\ UNCHANGED <<rvars, pvars, nvars, cvars>>

\* The subjects left to range over after a Publish call: its error is
\* logged and nothing else.
AfterPublishStopOnError(subjs, subject, ok) ==
    IF ok THEN subjs \ {subject} ELSE {}

AfterPublish(subjs, subject, ok) == subjs \ {subject}

\* natsClient.Publish for one subject of the update, in the order the map
\* yields them; it returns an error or nil, an error when ctx is done.
PublishOne(subject, ok) ==
    /\ bpc = "publish"
    /\ subject \in subjects
    /\ ok => bctx = "active"
    /\ pubLog' = Append(pubLog, [update_id |-> updates[bk].update_id,
                                 subject |-> subject, ok |-> ok])
    /\ subjects' = AfterPublish(subjects, subject, ok)
    /\ UNCHANGED <<feed, bctx, bpc, offset, updates, nextOffset, bk,
                   routeLog>>
    /\ UNCHANGED <<rvars, pvars, nvars, cvars>>

\* The range over the subjects is over: on with the next update.
PublishEnd ==
    /\ bpc = "publish"
    /\ subjects = {}
    /\ bk' = bk + 1
    /\ bpc' = "range"
    /\ UNCHANGED <<feed, bctx, offset, updates, nextOffset, subjects,
                   routeLog, pubLog>>
    /\ UNCHANGED <<rvars, pvars, nvars, cvars>>

\* The range over the updates is over: offset = nextOffset, and round
\* again (after a sleep when there was no update).
EndPoll ==
    /\ bpc = "range"
    /\ bk > Len(updates)
    /\ offset' = nextOffset
    /\ bpc' = "head"
    /\ UNCHANGED <<feed, bctx, updates, nextOffset, bk, subjects, routeLog,
                   pubLog>>
    /\ UNCHANGED <<rvars, pvars, nvars, cvars>>

BridgeNext ==
    \/ \E kind \in Updates : Arrive(kind)
    \/ Signal
    \/ BridgeLoopHead
    \/ GetUpdatesOk
    \/ GetUpdatesFail
    \/ RouteUpdate
    \/ \E subject \in subjects, ok \in BOOLEAN : PublishOne(subject, ok)
    \/ PublishEnd
    \/ EndPoll

\* The loop with a server that may send any result.
GetUpdatesFromAnyServer ==
    bpc = "poll" /\ \E result \in PollResults : GetUpdatesAny(result)

PollNext ==
    \/ Signal
    \/ BridgeLoopHead
    \/ GetUpdatesFromAnyServer
    \/ GetUpdatesFail
    \/ RouteUpdate
    \/ \E subject \in subjects, ok \in BOOLEAN : PublishOne(subject, ok)
    \/ PublishEnd
    \/ EndPoll

\* ---------------------------------------------------------------------
\*  What the logs say about an update
\* ---------------------------------------------------------------------
Routed(id) == \E r \in DOMAIN routeLog : routeLog[r].update_id = id

RouteFailed(id) ==
    \E r \in DOMAIN routeLog :
       routeLog[r].update_id = id /\ ~routeLog[r].ok

Attempts(id, s) ==
    { p \in DOMAIN pubLog :
        pubLog[p].update_id = id /\ pubLog[p].subject = s }

\* The loop is between two polls: updates is the result of the last one.
BetweenPolls == bpc = "head"

\* C16: no Publish call is made for an update whose Route call returned an
\* error; the loop ends only when ctx is done; and when a poll has been
\* worked through, every update of its result has been routed, every
\* subject of every update routed without error has been published to, and
\* the offset is past every update of the result, the failed ones too.
RouteErrorSkipsOnlyThatUpdate ==
    /\ \A r \in DOMAIN routeLog :
          ~routeLog[r].ok =>
             \A p \in DOMAIN pubLog :
                pubLog[p].update_id # routeLog[r].update_id
    /\ bpc = "exit" => bctx = "cancelled"
    /\ BetweenPolls =>
          \A k \in DOMAIN updates :
             LET r == SeqRoute(routes, mode, updates[k].kind) IN
             /\ Routed(updates[k].update_id)
             /\ r.err = Nil =>
                   \A s \in r.subjects :
                      Attempts(updates[k].update_id, s) # {}
             /\ offset > updates[k].update_id

\* One poll returned two updates; routing the first failed, the second was
\* published, and the offset is past both.
RouteErrorSkippedWitness ==
    /\ BetweenPolls /\ Len(updates) = 2
    /\ RouteFailed(updates[1].update_id)
    /\ \E p \in DOMAIN pubLog :
          pubLog[p].update_id = updates[2].update_id /\ pubLog[p].ok
    /\ offset > updates[2].update_id

\* C17: no (update, subject) pair is published to twice, so a failed one is
\* not tried again; and when a poll has been worked through, every subject
\* of every update routed without error has been published to exactly once,
\* whatever Publish calls failed before.
PublishFailureIsContained ==
    /\ \A p, q \in DOMAIN pubLog :
          (pubLog[p].update_id = pubLog[q].update_id
             /\ pubLog[p].subject = pubLog[q].subject) => p = q
    /\ BetweenPolls =>
          \A k \in DOMAIN updates :
             LET r == SeqRoute(routes, mode, updates[k].kind) IN
             r.err = Nil =>
                \A s \in r.subjects :
                   Cardinality(Attempts(updates[k].update_id, s)) = 1

\* A Publish call failed, then another subject of the same update was
\* published to, then a later update was.
PublishFailureWitness ==
    \E p, q, r \in DOMAIN pubLog :
       /\ p < q /\ q < r
       /\ ~pubLog[p].ok
       /\ pubLog[q].update_id = pubLog[p].update_id
       /\ pubLog[q].subject # pubLog[p].subject
       /\ pubLog[r].update_id > pubLog[p].update_id

\* The update_ids of the updates of the last poll.
PolledIds == { updates[k].update_id : k \in DOMAIN updates }

\* GetUpdates has returned without error and the range is not over.
PollSucceeded == bpc \in {"range", "publish"}

\* C31: the offset never decreases; when a poll has succeeded the next
\* offset is past every update of its result: one past the greatest
\* update_id when that is not below the offset, else the offset; and the
\* loop takes it as its offset when the result has been worked through.
OffsetNeverDecreases ==
    /\ [][offset' >= offset]_vars
    /\ [](PollSucceeded =>
           /\ \A id \in PolledIds : nextOffset > id
           /\ nextOffset >= offset
           /\ nextOffset # offset => nextOffset - 1 \in PolledIds)
    /\ [][(bpc = "range" /\ bpc' = "head") => offset' = nextOffset]_vars

\* A poll sent two updates out of order, the greater first, and the offset
\* is one past the greater; the poll before it had advanced the offset.
OffsetPastUnorderedWitness ==
    /\ BetweenPolls
    /\ Len(updates) = 2
    /\ updates[1].update_id > updates[2].update_id
    /\ offset = updates[1].update_id + 1
    /\ Len(routeLog) = 3

\* A step in which GetUpdates returns an error.
PollFails == bpc = "poll" /\ bpc' \in {"head", "exit"}

\* C32: when a poll fails GetUpdates returns the offset it was given and
\* no update, nothing is routed or published, the offset stays, and the
\* loop, unless it returns because ctx is done, polls again with it.
FailedPollKeepsOffset ==
    /\ [][PollFails =>
            /\ updates' = <<>> /\ nextOffset' = offset
            /\ offset' = offset
            /\ routeLog' = routeLog /\ pubLog' = pubLog
            /\ bctx = "active" => bpc' = "head"]_vars
    /\ [][(bpc = "head" /\ bpc' = "poll") => offset' = offset]_vars

\* A poll has failed after an earlier one had advanced the offset, and the
\* loop is about to poll again: the index of the range is as the earlier
\* poll left it, which a poll that succeeds resets.
FailedPollWitness ==
    /\ bpc = "head"
    /\ bctx = "active"
    /\ offset > 0
    /\ updates = <<>>
    /\ nextOffset = offset
    /\ bk > 1

\* C33: once ctx is cancelled the loop eventually returns, and it starts no
\* further poll.
ShutdownStopsLoop ==
    /\ (bctx = "cancelled") ~> (bpc = "exit")
    /\ [][bctx = "cancelled" => ~(bpc # "poll" /\ bpc' = "poll")]_vars
    /\ [][bpc = "exit" => bpc' = "exit"]_vars

\* The loop has returned after a signal that arrived while the updates of
\* a poll were worked through: a Publish call failed on it.
ShutdownDuringBatchWitness ==
    /\ bpc = "exit"
    /\ updates # <<>>
    /\ pubLog # <<>>
    /\ ~pubLog[Len(pubLog)].ok

\* ---------------------------------------------------------------------
\*  The batched Route against the sequential Route
\* ---------------------------------------------------------------------

\* No rule of the router fails on the update of the call.
NoRuleFails == \A n \in 1..NumRoutes : ~CondFails(n) /\ ~SubjFails(n)

\* C34: when no rule evaluation fails, the batched Route returns no error
\* and the subjects the sequential Route returns: the same set, each once.
SameSubjectsAsSequentialRoute ==
    (Returned /\ NoRuleFails) =>
       LET seq == SeqRoute(routes, mode, update) IN
       /\ seq.err = Nil
       /\ ret.err = Nil
       /\ { ret.subjects[k] : k \in DOMAIN ret.subjects } = seq.subjects
       /\ Len(ret.subjects) = Cardinality(seq.subjects)

\* Mode "first" with a batch of two: both rules of the first batch match,
\* with different subjects, and the result of the second was received
\* before that of the first.
SequentialWitness ==
    /\ Returned /\ NoRuleFails
    /\ mode = "first" /\ routeWorkers = 2 /\ NumRoutes >= 2
    /\ Matches(1) /\ Matches(2)
    /\ SubjectOf(1) # SubjectOf(2)
    /\ rr.idx = 1

\* C35: the outcome of a Route call, its subjects or that it is an error,
\* is the one the same call has with any other batch size.
OutcomeIndependentOfBatchSize ==
    Returned =>
       \A w \in 1..MaxRouteWorkers :
          OutcomeFrom(routes, mode, w, update, 1)
             = [error |-> ret.err # Nil, subjects |-> ret.subjects]

\* =====================================================================
\*  Config.Validate
\* =====================================================================

\* The routes a configuration file can list, well-formed or not.
ConfigRoutes ==
    { Rule(c, t, v) : c \in {"", "hasMessage"},
                      t \in {"", SubjectTypeString, SubjectTypeExpr, "regex"},
                      v \in {"", "tg.msg"} }

Configs ==
    [ Mode : {"first", "all", "any"},
      Routes : SeqsUpTo(ConfigRoutes, MaxConfigRoutes),
      TelegramToken : {"", "token"},
      NATSURL : {"", "nats://host"},
      RouteWorkers : (-1)..MaxRouteWorkers,
      PublishWorkers : (-1)..MaxPublishWorkers,
      PublishShutdownTimeout : (-1)..MaxTimeoutSec ]

\* The loop over the routes, from route i on: the first error, or nil.
RECURSIVE ValidateRoutes(_, _)
ValidateRoutes(rs, i) ==
    IF i > Len(rs) THEN Nil
    ELSE IF rs[i].Condition = "" THEN <<"condition is required", i>>
    ELSE IF rs[i].Subject.Type = "" THEN <<"subject.type is required", i>>
    ELSE IF rs[i].Subject.Value = "" THEN <<"subject.value is required", i>>
    ELSE IF rs[i].Subject.Type # SubjectTypeString
              /\ rs[i].Subject.Type # SubjectTypeExpr
    THEN <<"subject.type must be 'string' or 'expr'", i>>
    ELSE ValidateRoutes(rs, i + 1)

\* Config.Validate: the error it returns, or nil.
Validate(c) ==
    IF c.Mode # "first" /\ c.Mode # "all"
    THEN <<"mode must be 'first' or 'all'">>
    ELSE IF c.RouteWorkers <= 0 THEN <<"route_workers must be > 0">>
    ELSE IF c.PublishWorkers <= 0 THEN <<"publish_workers must be > 0">>
    ELSE IF c.PublishShutdownTimeout <= 0
    THEN <<"publish_shutdown_timeout must be > 0">>
    ELSE IF ValidateRoutes(c.Routes, 1) # Nil
    THEN ValidateRoutes(c.Routes, 1)
    ELSE IF c.TelegramToken = "" THEN <<"telegram token is required">>
    ELSE IF c.NATSURL = "" THEN <<"nats url is required">>
    ELSE Nil

NotValidated == <<"none">>

\* A configuration Validate has not been called on.
ConfigInit ==
    /\ cfg \in Configs
    /\ verr = NotValidated

\* No configuration is under validation.
NoConfig ==
    /\ cfg = [Mode |-> "first", Routes |-> <<>>, TelegramToken |-> "token",
              NATSURL |-> "nats://host", RouteWorkers |-> 1,
              PublishWorkers |-> 1, PublishShutdownTimeout |-> 1]
    /\ verr = NotValidated

\* Validate is called on the configuration.
ValidateCall ==
    /\ verr = NotValidated
    /\ verr' = Validate(cfg)
    /\ UNCHANGED cfg
    /\ UNCHANGED <<rvars, pvars, nvars, bvars>>

\* C20: Validate returns no error for a configuration whose mode is
\* "first" or "all", whose routes each have a non-empty condition, a
\* subject type "string" or "expr" and a non-empty subject value, and whose
\* token and URL are non-empty; it returns an error when the mode is
\* another one or the token or the URL is empty.
WellFormedRoute(r) ==
    /\ r.Condition # ""
    /\ r.Subject.Type \in {SubjectTypeString, SubjectTypeExpr}
    /\ r.Subject.Value # ""

ValidateAcceptsWellFormed ==
    verr # NotValidated =>
      /\ ( /\ cfg.Mode \in {"first", "all"}
           /\ \A k \in DOMAIN cfg.Routes : WellFormedRoute(cfg.Routes[k])
           /\ cfg.TelegramToken # "" /\ cfg.NATSURL # "" )
         => verr = Nil
      /\ (cfg.Mode \notin {"first", "all"} \/ cfg.TelegramToken = ""
            \/ cfg.NATSURL = "")
         => verr # Nil

\* =====================================================================
\*  Specifications
\* =====================================================================

\* The router at work, the pool left as constructed.
RouterSpecInit ==
    RouterInit /\ NewPublisher(1, 1) /\ NoNewRouter /\ NoBridge /\ NoConfig

RouterSpec == RouterSpecInit /\ [][RouterNext]_vars

\* Route with a scheduler that does not starve a goroutine able to run;
\* nobody has to call Route.
RouterFairSpec ==
    /\ RouterSpec
    /\ WF_vars(LoopHead \/ Spawn \/ Wait \/ Collect \/ BatchEnd)
    /\ \A idx \in 1..MaxRoutes :
         WF_vars(idx \in DOMAIN gpc /\ GoEval(idx))

\* A router without rules, for the specifications of the pool.
NoRouter ==
    /\ RouterInit
    /\ routes = <<>> /\ mode = "first" /\ routeWorkers = 1

PoolSpecInit == NoRouter /\ PoolInit /\ NoNewRouter /\ NoBridge /\ NoConfig

\* The pool at work.
PoolSpec == PoolSpecInit /\ [][PoolNext]_vars

\* The pool with a scheduler that does not starve a goroutine able to run
\* and a clock that advances; the transport may hang and nobody has to
\* call Publish or Close.
PoolFairSpec ==
    /\ PoolSpec
    /\ \A w \in 1..MaxPublishWorkers : WF_vars(w \in Workers /\ worker(w))
    /\ \A s \in Submitters : WF_vars(PublishReturns(s))
    /\ WF_vars(CloseCancel \/ CloseChan \/ Waiter \/ CloseDone
                  \/ CloseTimeout \/ Tick)

\* The pool with fair workers and Close, when every transport call in
\* progress returns.
PoolDrainSpec ==
    /\ PoolFairSpec
    /\ \A w \in 1..MaxPublishWorkers :
         WF_vars(w \in Workers /\ \E ok \in BOOLEAN : TransportReturns(w, ok))

\* The pool with NATSClient as its transport.
PoolNATSNext ==
    \/ Start
    \/ \E s \in Submitters : Publish(s)
    \/ \E s \in Submitters : PublishReturns(s)
    \/ \E w \in DOMAIN wpc : worker(w)
    \/ \E w \in DOMAIN wpc : ConnPublish(w)
    \/ \E w \in DOMAIN wpc, ok \in BOOLEAN : NATSPublishReturns(w, ok)
    \/ \E w \in DOMAIN wpc : TaskTimeout(w)
    \/ Close

PoolNATSSpec == PoolSpecInit /\ [][PoolNATSNext]_vars

\* The pool at work, the timeout of a task being able to elapse.
PoolCtxSpec == PoolSpecInit /\ [][PoolCtxNext]_vars

\* The pool with one caller of Publish, Close not being called.
PoolOrderSpec == PoolSpecInit /\ [][PoolOrderNext]_vars

\* The pool when Close is never called and every transport call returns.
PoolRunSpec ==
    /\ PoolSpecInit
    /\ [][PoolRunNext]_vars
    /\ WF_vars(Start)
    /\ \A w \in 1..MaxPublishWorkers :
         /\ WF_vars(w \in Workers /\ WorkerRecv(w))
         /\ WF_vars(w \in Workers
                      /\ \E ok \in BOOLEAN : TransportReturns(w, ok))
    /\ \A s \in Submitters : WF_vars(PublishReturns(s))

\* NewRouter at work, then its router; the rest left untouched.
NewRouterSpecInit ==
    RouterAbsent /\ NewPublisher(1, 1) /\ NoNewRouter /\ NoBridge /\ NoConfig

NewRouterSpec == NewRouterSpecInit /\ [][NewRouterNext]_vars

\* The ingestion loop at work with a router of a few rules.
BridgeSpecInit ==
    /\ RouterInit
    /\ Len(routes) <= MaxBridgeRoutes
    /\ \A k \in DOMAIN routes : routes[k] \in BridgeRoutes
    /\ routeWorkers = 1
    /\ NewPublisher(1, 1)
    /\ NoNewRouter
    /\ BridgeInit
    /\ NoConfig

BridgeSpec == BridgeSpecInit /\ [][BridgeNext]_vars

\* The ingestion loop with one rule and a server that may send any result.
PollSpecInit ==
    /\ RouterInit
    /\ routes = <<StaticRoute("hasMessage", "tg.msg")>>
    /\ mode = "first"
    /\ routeWorkers = 1
    /\ NewPublisher(1, 1)
    /\ NoNewRouter
    /\ BridgeInit
    /\ NoConfig

PollSpec == PollSpecInit /\ [][PollNext]_vars

\* The same with a scheduler that does not starve the loop, every call it
\* makes returning.
PollFairSpec ==
    /\ PollSpec
    /\ WF_vars(BridgeLoopHead \/ GetUpdatesFromAnyServer \/ GetUpdatesFail
                  \/ RouteUpdate \/ PublishEnd \/ EndPoll
                  \/ \E subject \in subjects, ok \in BOOLEAN :
                        PublishOne(subject, ok))

\* Validate applied to a configuration.
ConfigSpecInit ==
    NoRouter /\ NewPublisher(1, 1) /\ NoNewRouter /\ NoBridge /\ ConfigInit

ConfigSpec == ConfigSpecInit /\ [][ValidateCall]_vars

====
